---- MODULE Spec2Model ----
(***************************************************************************)
(* Model of the VelocityBackend download job manager                       *)
(* (app/services/download_service.py) and of the extraction retry loop     *)
(* (app/services/ytdlp_service.py).                                        *)
(*                                                                         *)
(* Error messages are sequences of one-character strings so that Python's  *)
(* substring test and str.lower() are computed, not assumed.               *)
(* progress is an exact fraction <<numerator, denominator>> in lowest      *)
(* terms.  Every block of code that runs under DownloadManager._lock is    *)
(* one action; the code between two such blocks is a position of the       *)
(* job's thread (pc).                                                      *)
(***************************************************************************)
EXTENDS Integers, Sequences, FiniteSets, TLC

\* ------------------------------------------------------------------ bounds
MaxHooks == 2     \* progress callbacks the collaborator makes per download call
MaxBytes == 2     \* largest byte count reported to a progress callback
MaxTime  == 3     \* largest value of the clock read by time.time()
MaxCalls == 4     \* allow calls answered per client
MaxFormats == 2   \* length of the list handed to pick_best_audio
MaxText == 2      \* characters of a URL's path and of a cookie payload

\* --------------------------------------------------------------- constants
max_retries == 3            \* download_service.py:108
extract_max_retries == 3    \* ytdlp_service.py:33
ttl_seconds == 1            \* config.py:9, VELOCITY_CACHE_TTL
rate_limit == 2             \* config.py:10, VELOCITY_RATE_LIMIT
rate_window == 2            \* config.py:11, VELOCITY_RATE_WINDOW

\* Python's None; strings and paths are sequences, so None is the empty one
None == << >>

\* ------------------------------------------------------------ text helpers
UpperChars == <<"A","B","C","D","E","F","G","H","I","J","K","L","M",
                "N","O","P","Q","R","S","T","U","V","W","X","Y","Z">>
LowerChars == <<"a","b","c","d","e","f","g","h","i","j","k","l","m",
                "n","o","p","q","r","s","t","u","v","w","x","y","z">>

\* str.lower() on one character
LowerChar(c) ==
    IF \E i \in 1..26 : UpperChars[i] = c
    THEN LowerChars[CHOOSE i \in 1..26 : UpperChars[i] = c]
    ELSE c

\* str.lower()
Lower(s) == [i \in 1..Len(s) |-> LowerChar(s[i])]

\* Python's  p in s  on strings
Contains(s, p) ==
    \E i \in 0..(Len(s) - Len(p)) : \A k \in 1..Len(p) : s[i + k] = p[k]

\* "HTTP Error 429: Too Many Requests"
Msg429 == <<"H","T","T","P"," ","E","r","r","o","r"," ","4","2","9",":"," ",
            "T","o","o"," ","M","a","n","y"," ","R","e","q","u","e","s","t","s">>
\* "HTTP Error 403: Forbidden"
Msg403 == <<"H","T","T","P"," ","E","r","r","o","r"," ","4","0","3",":"," ",
            "F","o","r","b","i","d","d","e","n">>
\* "Too Many Requests"
MsgTooMany == <<"T","o","o"," ","M","a","n","y"," ","R","e","q","u","e","s","t","s">>
\* "Download cancelled"
MsgCancelled == <<"D","o","w","n","l","o","a","d"," ",
                  "c","a","n","c","e","l","l","e","d">>
\* "Max retries exceeded"
MsgMaxRetries == <<"M","a","x"," ","r","e","t","r","i","e","s"," ",
                   "e","x","c","e","e","d","e","d">>

\* "HTTP Error 429"
PatHttp429 == <<"H","T","T","P"," ","E","r","r","o","r"," ","4","2","9">>
\* "429"
Pat429 == <<"4","2","9">>
\* "too many requests"
PatTooMany == <<"t","o","o"," ","m","a","n","y"," ","r","e","q","u","e","s","t","s">>

\* a call of the collaborator that returned normally
Ok == <<"o","k">>

\* the errors the external collaborator raises in this model
CollaboratorErrors == {Msg429, Msg403, MsgTooMany}

\* --------------------------------------------------------------- fractions
RECURSIVE GCD(_, _)
GCD(a, b) == IF b = 0 THEN a ELSE GCD(b, a % b)

\* the fraction n/d in lowest terms (d > 0)
Frac(n, d) == LET g == GCD(n, d) IN IF g = 0 THEN <<0, 1>> ELSE <<n \div g, d \div g>>

Zero    == <<0, 1>>
Hundred == <<100, 1>>

FracLeq(a, b) == a[1] * b[2] <= b[1] * a[2]


\* ------------------------------------------------------------------- state
VARIABLES
    jobs,         \* DownloadManager._jobs: job_id -> job dict
    pc,           \* position of each job's _run thread
    attempts,     \* _run's local counter  attempts
    exc,          \* the exception _run has caught and not yet handled
    hooks,        \* progress callbacks made during the current download call
    cookies,      \* whether cookie material was given to start
    cookieFile,   \* the staged credential file: "none", "present", "removed"
    calls,        \* how many times _run has invoked ydl.download
    outcomes,     \* the outcome of each finished ydl.download call, in order
    wasRetrying,  \* the job's status has been "retrying"
    cancelRet,    \* what the last cancel(job_id) returned: "True", "False"
    startRet,     \* what the caller of start has read from the returned dict
    lock,         \* DownloadManager._lock: "free" or "held"
    pollRef,      \* the dict DownloadManager.get handed to the polling request
    polled,       \* the fields the polling request has read from that dict
    xpc,          \* position of run_extract
    xattempt,     \* run_extract's loop variable  attempt
    xcookies,     \* whether cookie material was given to run_extract
    xcookieFile,  \* run_extract's credential file
    xexc,         \* the exception run_extract has caught
    xlog,         \* the outcome of each extract_info call, in order
    xresult,      \* what run_extract returned or raised
    clock,        \* the value time.time() returns
    cacheMap,     \* MemoryCache._cache
    tsMap,        \* MemoryCache._timestamps
    cpc,          \* position of each request thread inside a MemoryCache call
    cframe,       \* the thread's arguments and locals in that call, with what
                  \* it found when it read the clock
    live,         \* per key: time and value of the last finished set, if no
                  \* clear or purge touched the key since
    requests,     \* RateLimiter._requests: client_id -> list of timestamps
    lpc,          \* position of each request in auth_and_rate_limit
    lframe,       \* the request's client id, allow's local  now, allow's
                  \* result, and _requests as the call found it
    llog,         \* per client: time and result of every answered allow call
    formats,      \* the list handed to pick_best_audio
    picked,       \* what pick_best_audio returned, once it has been called
    errText,      \* str(exc) of an exception the collaborator raised
    classified,   \* what each except clause decides on a first such failure
    kreq,         \* the requests sent to the info and formats handlers
    kstore,       \* the result cache those handlers use: key -> cached result
    kresp         \* per request: the result its handler returned

jobVars     == <<jobs, pc, attempts, exc, hooks, cookies, cookieFile, calls,
                 outcomes, wasRetrying, cancelRet, startRet>>
extractVars == <<xpc, xattempt, xcookies, xcookieFile, xexc, xlog, xresult>>
cacheVars   == <<cacheMap, tsMap, cpc, cframe, live>>
limiterVars == <<requests, lpc, lframe, llog>>
pollVars    == <<pollRef, polled>>
pickVars    == <<formats, picked>>
classifyVars == <<errText, classified>>
keyVars     == <<kreq, kstore, kresp>>
pureVars    == <<pickVars, classifyVars, keyVars>>
outsideVars == <<extractVars, clock, cacheVars, limiterVars, pureVars>>
programVars == <<jobVars, lock, pollVars, extractVars, clock, cacheVars,
                 limiterVars>>
vars        == <<jobVars, lock, pollVars, outsideVars>>

\* what the actions of one component leave alone
nonJobVars     == <<lock, pollVars, outsideVars>>
nonExtractVars == <<jobVars, lock, pollVars, clock, cacheVars, limiterVars,
                    pureVars>>
nonCacheVars   == <<jobVars, lock, pollVars, extractVars, limiterVars,
                    pureVars>>
nonLimiterVars == <<jobVars, lock, pollVars, extractVars, cacheVars,
                    pureVars>>

\* Jobs share nothing but the table and its lock, and every block that
\* touches a job runs under the lock: the model follows one job.
JobIds == {1}

\* a job id no job has (uuid4 never produces it)
UnknownId == 0

\* the dict built by start, lines 20-28
NewJob(job_id) ==
    [job_id |-> job_id, status |-> "queued", progress |-> Zero,
     filename |-> None, file_path |-> None, error |-> None, cancel |-> FALSE]

\* the progress dicts yt-dlp hands to a progress hook
HookStatuses == {"downloading", "finished", "error"}
FilePaths    == {None, <<"downloads", "a.mp4">>}

HookDicts ==
    { d \in [status : HookStatuses, total_bytes : 0..MaxBytes,
             total_bytes_estimate : 0..MaxBytes, downloaded_bytes : 0..MaxBytes,
             filename : FilePaths] :
        /\ d.total_bytes > 0 => d.downloaded_bytes <= d.total_bytes
        /\ (d.total_bytes = 0 /\ d.total_bytes_estimate > 0)
              => d.downloaded_bytes <= d.total_bytes_estimate }

\* os.path.basename of a path given as its components
Basename(path) == <<path[Len(path)]>>

JobInit ==
    /\ jobs = << >>
    /\ pc = [j \in JobIds |-> "unborn"]
    /\ attempts = [j \in JobIds |-> 0]
    /\ exc = [j \in JobIds |-> None]
    /\ hooks = [j \in JobIds |-> 0]
    /\ cookies = [j \in JobIds |-> FALSE]
    /\ cookieFile = [j \in JobIds |-> "none"]
    /\ calls = [j \in JobIds |-> 0]
    /\ outcomes = [j \in JobIds |-> << >>]
    /\ wasRetrying = [j \in JobIds |-> FALSE]
    /\ cancelRet = [j \in JobIds \cup {UnknownId} |-> "not called"]
    /\ startRet = [j \in JobIds |-> None]
    /\ lock = "free"
    /\ pollRef = None
    /\ polled = None

ExtractIdle ==
    /\ xpc = "idle"
    /\ xattempt = 0
    /\ xcookies = FALSE
    /\ xcookieFile = "none"
    /\ xexc = None
    /\ xlog = << >>
    /\ xresult = None

\* ------------------------------------------------- DownloadManager.start
\* lines 19-38: register the job under the lock, launch the thread, return
\* the very dict that is in the table
StartRunning(withCookies) ==
    LET job_id == Cardinality(DOMAIN jobs) + 1 IN
    /\ job_id \in JobIds
    /\ lock = "free"
    /\ jobs' = [j \in DOMAIN jobs \cup {job_id} |->
                   IF j = job_id
                   THEN [NewJob(job_id) EXCEPT !.status = "downloading"]
                   ELSE jobs[j]]
    /\ cookies' = [cookies EXCEPT ![job_id] = withCookies]
    /\ pc' = [pc EXCEPT ![job_id] = "stage"]
    /\ UNCHANGED <<attempts, exc, hooks, cookieFile, calls, outcomes,
                   wasRetrying, cancelRet, startRet, nonJobVars>>

Start(withCookies) ==
    LET job_id == Cardinality(DOMAIN jobs) + 1 IN
    /\ job_id \in JobIds
    /\ lock = "free"
    /\ jobs' = [j \in DOMAIN jobs \cup {job_id} |->
                   IF j = job_id THEN NewJob(job_id) ELSE jobs[j]]
    /\ cookies' = [cookies EXCEPT ![job_id] = withCookies]
    /\ pc' = [pc EXCEPT ![job_id] = "stage"]
    /\ UNCHANGED <<attempts, exc, hooks, cookieFile, calls, outcomes,
                   wasRetrying, cancelRet, startRet, nonJobVars>>

\* main.py download: the caller serialises the dict start returned; the dict
\* is the table's own object, so the read sees the fields as they are now
ReadStartResult(j) ==
    /\ j \in DOMAIN jobs
    /\ startRet[j] = None
    /\ startRet' = [startRet EXCEPT ![j] =
                       <<[status |-> jobs[j].status, progress |-> jobs[j].progress]>>]
    /\ UNCHANGED <<jobs, pc, attempts, exc, hooks, cookies, cookieFile, calls,
                   outcomes, wasRetrying, cancelRet, nonJobVars>>

\* ------------------------------------------------ DownloadManager.cancel
\* job ids are uuid4 values: a caller of cancel can name a job only after
\* reading its id from the dict start returned
KnownIds == {j \in DOMAIN jobs : startRet[j] # << >>}

CancelFlagOnly(job_id) ==
    /\ lock = "free"
    /\ IF job_id \in DOMAIN jobs
       THEN /\ jobs' = [jobs EXCEPT ![job_id].cancel = TRUE]
            /\ cancelRet' = [cancelRet EXCEPT ![job_id] = "True"]
       ELSE /\ jobs' = jobs
            /\ cancelRet' = [cancelRet EXCEPT ![job_id] = "False"]
    /\ UNCHANGED <<pc, attempts, exc, hooks, cookies, cookieFile, calls,
                   outcomes, wasRetrying, startRet, nonJobVars>>

\* lines 44-51, one block under the lock
Cancel(job_id) ==
    /\ lock = "free"
    /\ IF job_id \in DOMAIN jobs
       THEN /\ jobs' = [jobs EXCEPT ![job_id].cancel = TRUE,
                                    ![job_id].status = "cancelling"]
            /\ cancelRet' = [cancelRet EXCEPT ![job_id] = "True"]
       ELSE /\ jobs' = jobs
            /\ cancelRet' = [cancelRet EXCEPT ![job_id] = "False"]
    /\ UNCHANGED <<pc, attempts, exc, hooks, cookies, cookieFile, calls,
                   outcomes, wasRetrying, startRet, nonJobVars>>

\* --------------------------------------------------- DownloadManager._run
\* lines 73-78: stage the cookie material in a temporary file.  Creating or
\* writing the file can raise OSError; nothing catches it here.
StageCookies(j, ok) ==
    /\ pc[j] = "stage"
    /\ IF ~cookies[j]
       THEN /\ pc' = [pc EXCEPT ![j] = "mkdir"]
            /\ cookieFile' = cookieFile
       ELSE IF ok
       THEN /\ pc' = [pc EXCEPT ![j] = "mkdir"]
            /\ cookieFile' = [cookieFile EXCEPT ![j] = "present"]
       ELSE /\ pc' = [pc EXCEPT ![j] = "crashed"]
            /\ cookieFile' = cookieFile
    /\ UNCHANGED <<jobs, attempts, exc, hooks, cookies, calls, outcomes,
                   wasRetrying, cancelRet, startRet, nonJobVars>>

\* lines 93-94: os.makedirs(output_root, exist_ok=True) can raise OSError;
\* nothing catches it here.
MakeDirs(j, ok) ==
    /\ pc[j] = "mkdir"
    /\ pc' = [pc EXCEPT ![j] = IF ok THEN "call" ELSE "crashed"]
    /\ UNCHANGED <<jobs, attempts, exc, hooks, cookies, cookieFile, calls,
                   outcomes, wasRetrying, cancelRet, startRet, nonJobVars>>

\* lines 110-113: enter the try block and invoke ydl.download
CallDownload(j) ==
    /\ pc[j] = "call"
    /\ pc' = [pc EXCEPT ![j] = "downloading"]
    /\ calls' = [calls EXCEPT ![j] = @ + 1]
    /\ hooks' = [hooks EXCEPT ![j] = 0]
    /\ UNCHANGED <<jobs, attempts, exc, cookies, cookieFile, outcomes,
                   wasRetrying, cancelRet, startRet, nonJobVars>>

\* line 62
HookTotal(d) ==
    IF d.total_bytes # 0 THEN d.total_bytes
    ELSE IF d.total_bytes_estimate # 0 THEN d.total_bytes_estimate
    ELSE 0

\* lines 61-71: what hook does to the job when the cancel flag is not set
HookUpdate(job, d) ==
    IF d.status = "downloading"
    THEN [job EXCEPT
            !.progress = IF HookTotal(d) # 0
                         THEN Frac(d.downloaded_bytes * 100, HookTotal(d))
                         ELSE job.progress,
            !.status = "downloading"]
    ELSE IF d.status = "finished"
    THEN [job EXCEPT
            !.progress = Hundred,
            !.status = "processing",
            !.file_path = d.filename,
            !.filename = IF d.filename # None THEN Basename(d.filename)
                         ELSE job.filename]
    ELSE job

\* The collaborator reports one file at a time: between two "downloading"
\* callbacks with no "finished" callback, retry or cancel in between, the
\* reported fraction does not go down.
SameFileAdvances(j, d) ==
    (j \in DOMAIN jobs /\ jobs[j].status = "downloading"
       /\ d.status = "downloading" /\ HookTotal(d) # 0)
    => FracLeq(jobs[j].progress, Frac(d.downloaded_bytes * 100, HookTotal(d)))

\* lines 54-71: one progress callback, made by the collaborator while
\* ydl.download runs.  With the cancel flag set it raises, and the exception
\* leaves ydl.download and is caught at line 120.
Hook(j, d) ==
    /\ pc[j] = "downloading"
    /\ hooks[j] < MaxHooks
    /\ SameFileAdvances(j, d)
    /\ hooks' = [hooks EXCEPT ![j] = @ + 1]
    /\ IF j \notin DOMAIN jobs
       THEN UNCHANGED <<jobs, pc, exc, outcomes>>
       ELSE IF jobs[j].cancel
       THEN /\ pc' = [pc EXCEPT ![j] = "raised"]
            /\ exc' = [exc EXCEPT ![j] = MsgCancelled]
            /\ outcomes' = [outcomes EXCEPT ![j] = Append(@, MsgCancelled)]
            /\ jobs' = jobs
       ELSE /\ jobs' = [jobs EXCEPT ![j] = HookUpdate(jobs[j], d)]
            /\ UNCHANGED <<pc, exc, outcomes>>
    /\ UNCHANGED <<attempts, cookies, cookieFile, calls, wasRetrying,
                   cancelRet, startRet, nonJobVars>>

\* ydl.download returns normally (line 113)
DownloadReturns(j) ==
    /\ pc[j] = "downloading"
    /\ pc' = [pc EXCEPT ![j] = "returned"]
    /\ outcomes' = [outcomes EXCEPT ![j] = Append(@, Ok)]
    /\ UNCHANGED <<jobs, attempts, exc, hooks, cookies, cookieFile, calls,
                   wasRetrying, cancelRet, startRet, nonJobVars>>

\* ydl.download raises an error of its own (line 113 to line 120)
DownloadRaises(j, msg) ==
    /\ pc[j] = "downloading"
    /\ pc' = [pc EXCEPT ![j] = "raised"]
    /\ exc' = [exc EXCEPT ![j] = msg]
    /\ outcomes' = [outcomes EXCEPT ![j] = Append(@, msg)]
    /\ UNCHANGED <<jobs, attempts, hooks, cookies, cookieFile, calls,
                   wasRetrying, cancelRet, startRet, nonJobVars>>

\* lines 136-140 (ytdlp_service.py lines 90-96): the finally clause
KeepCookieFile(state) == state

RemoveCookieFile(state) == IF state = "present" THEN "removed" ELSE state

\* lines 114-117: take the lock and set the status.  The lock keeps cancel
\* and get out until line 118 is done, but not a request that already holds
\* the dict and reads its fields.
CompleteStatus(j) ==
    /\ pc[j] = "returned"
    /\ lock = "free"
    /\ lock' = "held"
    /\ jobs' = IF j \in DOMAIN jobs
               THEN [jobs EXCEPT ![j].status = "completed"]
               ELSE jobs
    /\ pc' = [pc EXCEPT ![j] = "completing"]
    /\ UNCHANGED <<attempts, exc, hooks, cookies, cookieFile, calls, outcomes,
                   wasRetrying, cancelRet, startRet, pollVars, outsideVars>>

\* lines 118-119 and the finally clause: set the progress, release the
\* lock, leave the loop
CompleteProgress(j) ==
    /\ pc[j] = "completing"
    /\ lock' = "free"
    /\ jobs' = IF j \in DOMAIN jobs
               THEN [jobs EXCEPT ![j].progress = Hundred]
               ELSE jobs
    /\ cookieFile' = [cookieFile EXCEPT ![j] = RemoveCookieFile(@)]
    /\ pc' = [pc EXCEPT ![j] = "done"]
    /\ UNCHANGED <<attempts, exc, hooks, cookies, calls, outcomes,
                   wasRetrying, cancelRet, startRet, pollVars, outsideVars>>

\* --------------------------------------------------- DownloadManager.get
\* lines 40-42: look the job up under the lock; the caller gets the table's
\* own dict, or None for an unknown id
PollGet(job_id) ==
    /\ lock = "free"
    /\ pollRef = None
    /\ polled = None
    /\ job_id \in DOMAIN jobs
    /\ pollRef' = <<job_id>>
    /\ UNCHANGED <<jobVars, lock, polled, outsideVars>>

\* main.py download_status, line 318: the response is built from the dict's
\* fields, read without the lock
PollRead ==
    /\ pollRef # None
    /\ polled' = <<[status |-> jobs[pollRef[1]].status,
                    progress |-> jobs[pollRef[1]].progress]>>
    /\ pollRef' = None
    /\ UNCHANGED <<jobVars, lock, outsideVars>>

\* the response is sent
PollSend ==
    /\ polled # None
    /\ polled' = None
    /\ UNCHANGED <<jobVars, lock, pollRef, outsideVars>>

\* line 122, evaluated after  attempts += 1
ShouldRetryFirstOnly(msg, n) == Contains(msg, PatHttp429) /\ n <= 1

ShouldRetryAnyError(msg, n) == n <= max_retries

ShouldRetry(msg, n) == Contains(msg, PatHttp429) /\ n <= max_retries

\* lines 120-134: count the failure, record it on the job, then either go
\* to sleep before another attempt or leave the loop through finally
HandleError(j) ==
    /\ pc[j] = "raised"
    /\ LET n == attempts[j] + 1
           should_retry == ShouldRetry(exc[j], n)
       IN /\ attempts' = [attempts EXCEPT ![j] = n]
          /\ jobs' = IF j \in DOMAIN jobs
                     THEN [jobs EXCEPT
                             ![j].status = IF should_retry THEN "retrying"
                                           ELSE "failed",
                             ![j].error = exc[j]]
                     ELSE jobs
          /\ wasRetrying' = [wasRetrying EXCEPT
                                ![j] = @ \/ (should_retry /\ j \in DOMAIN jobs)]
          /\ pc' = [pc EXCEPT ![j] = IF should_retry THEN "sleep" ELSE "done"]
          /\ cookieFile' = [cookieFile EXCEPT
                               ![j] = IF should_retry THEN @
                                      ELSE RemoveCookieFile(@)]
    /\ exc' = [exc EXCEPT ![j] = None]
    /\ UNCHANGED <<hooks, cookies, calls, outcomes, cancelRet, startRet,
                   nonJobVars>>

\* lines 132-133 and the finally clause: the sleep ends, finally removes the
\* cookie file, continue goes back to the top of the loop
Backoff(j) ==
    /\ pc[j] = "sleep"
    /\ cookieFile' = [cookieFile EXCEPT ![j] = RemoveCookieFile(@)]
    /\ pc' = [pc EXCEPT ![j] = "call"]
    /\ UNCHANGED <<jobs, attempts, exc, hooks, cookies, calls, outcomes,
                   wasRetrying, cancelRet, startRet, nonJobVars>>

\* ------------------------------------------------------------ run_extract
\* lines 34-45: stage the cookie material and enter the loop with attempt 0.
\* Creating the temporary file can raise OSError, which leaves run_extract.
MsgOSError == <<"O","S","E","r","r","o","r">>

ExtractBegin(withCookies, ok) ==
    /\ xpc = "idle"
    /\ xcookies' = withCookies
    /\ xattempt' = 0
    /\ IF ~withCookies
       THEN /\ xpc' = "try"
            /\ UNCHANGED <<xcookieFile, xresult>>
       ELSE IF ok
       THEN /\ xpc' = "try"
            /\ xcookieFile' = "present"
            /\ xresult' = xresult
       ELSE /\ xpc' = "done"
            /\ xcookieFile' = xcookieFile
            /\ xresult' = [kind |-> "raise", detail |-> MsgOSError]
    /\ UNCHANGED <<xexc, xlog, nonExtractVars>>

\* lines 46-75: build the options and call ydl.extract_info
ExtractCall ==
    /\ xpc = "try"
    /\ xpc' = "extracting"
    /\ UNCHANGED <<xattempt, xcookies, xcookieFile, xexc, xlog, xresult, nonExtractVars>>

\* lines 77-78 and the finally clause: extract_info returned, return info
ExtractReturns ==
    /\ xpc = "extracting"
    /\ xlog' = Append(xlog, Ok)
    /\ xresult' = [kind |-> "return", detail |-> Ok]
    /\ xcookieFile' = RemoveCookieFile(xcookieFile)
    /\ xpc' = "done"
    /\ UNCHANGED <<xattempt, xcookies, xexc, nonExtractVars>>

\* extract_info raises (line 75 to line 79)
ExtractRaises(msg) ==
    /\ xpc = "extracting"
    /\ xlog' = Append(xlog, msg)
    /\ xexc' = msg
    /\ xpc' = "caught"
    /\ UNCHANGED <<xattempt, xcookies, xcookieFile, xresult, nonExtractVars>>

\* lines 80-82: the rate-limit test on the lower-cased message
IsRateLimited(msg) ==
    Contains(Lower(msg), Pat429) \/ Contains(Lower(msg), PatTooMany)

\* lines 82-83: whether the loop goes on to another attempt
ExtractRetriesAnyError(msg, attempt) == attempt < extract_max_retries - 1

ExtractRetries(msg, attempt) ==
    IsRateLimited(msg) /\ attempt < extract_max_retries - 1

\* lines 79-96: either sleep before the next attempt, or raise
\* HTTPException(500, str(exc)) through the finally clause
ExtractHandle ==
    /\ xpc = "caught"
    /\ IF ExtractRetries(xexc, xattempt)
       THEN /\ xpc' = "sleep"
            /\ UNCHANGED <<xcookieFile, xresult>>
       ELSE /\ xpc' = "done"
            /\ xcookieFile' = RemoveCookieFile(xcookieFile)
            /\ xresult' = [kind |-> "raise", detail |-> xexc]
    /\ xexc' = None
    /\ UNCHANGED <<xattempt, xcookies, xlog, nonExtractVars>>

\* lines 86-87, the finally clause, and the next turn of  for attempt in
\* range(max_retries); line 98 when the range is used up
ExtractBackoff ==
    /\ xpc = "sleep"
    /\ xcookieFile' = RemoveCookieFile(xcookieFile)
    /\ xattempt' = xattempt + 1
    /\ IF xattempt + 1 < extract_max_retries
       THEN /\ xpc' = "try"
            /\ xresult' = xresult
       ELSE /\ xpc' = "done"
            /\ xresult' = [kind |-> "raise", detail |-> MsgMaxRetries]
    /\ UNCHANGED <<xcookies, xexc, xlog, nonExtractVars>>

\* ------------------------------------------------------------ MemoryCache
\* main.py info, formats and cache_clear are plain  def  handlers: FastAPI
\* runs each request on a thread of its pool, and MemoryCache takes no lock,
\* so every dict operation of a call is a step of its own.
CacheThreads == {"t1", "t2"}
CacheKeys    == {"k1", "k2"}
CacheValues  == {"v1", "v2"}

\* the locals of a thread that is in no MemoryCache call
IdleFrame ==
    [key |-> "k1", value |-> "v1", now |-> 0, ret |-> << >>,
     seenLive |-> << >>, sizeBefore |-> 0]

CacheIdle ==
    /\ clock = 0
    /\ cacheMap = << >>
    /\ tsMap = << >>
    /\ cpc = [t \in CacheThreads |-> "idle"]
    /\ cframe = [t \in CacheThreads |-> IdleFrame]
    /\ live = [k \in CacheKeys |-> << >>]

\* time passes
Tick ==
    /\ clock < MaxTime
    /\ clock' = clock + 1
    /\ UNCHANGED <<cacheVars, nonCacheVars>>

\* dict.pop(key, None)
DictPop(map, key) == [k \in DOMAIN map \ {key} |-> map[k]]

\* dict[key] = value
DictPut(map, key, value) ==
    [k \in DOMAIN map \cup {key} |-> IF k = key THEN value ELSE map[k]]

\* MemoryCache.size, line 31
CacheSize == Cardinality(DOMAIN cacheMap)

\* get, lines 14-15: the call begins; a key that is not in _cache gives None
CacheGet14(t, key) ==
    /\ cpc[t] = "idle"
    /\ cframe' = [cframe EXCEPT ![t] =
                     [IdleFrame EXCEPT !.key = key, !.now = clock,
                                       !.seenLive = live[key],
                                       !.sizeBefore = CacheSize]]
    /\ cpc' = [cpc EXCEPT ![t] = IF key \notin DOMAIN cacheMap THEN "returned"
                                 ELSE "get16"]
    /\ UNCHANGED <<clock, cacheMap, tsMap, live, nonCacheVars>>

\* line 16: whether the entry stamped ts is expired at time now
CacheExpiredAtTtl(now, ts) == now - ts >= ttl_seconds

CacheExpired(now, ts) == now - ts > ttl_seconds

\* get, line 16: read the clock and the timestamp (0 when there is none)
CacheGet16(t) ==
    /\ cpc[t] = "get16"
    /\ LET key == cframe[t].key
           ts == IF key \in DOMAIN tsMap THEN tsMap[key] ELSE 0
       IN /\ cpc' = [cpc EXCEPT ![t] = IF CacheExpired(clock, ts) THEN "get17"
                                       ELSE "get20"]
          /\ cframe' = [cframe EXCEPT ![t].now = clock,
                                      ![t].seenLive = live[key],
                                      ![t].sizeBefore = CacheSize]
    /\ UNCHANGED <<clock, cacheMap, tsMap, live, nonCacheVars>>

\* get, line 17: purge the payload
CacheGet17(t) ==
    /\ cpc[t] = "get17"
    /\ cacheMap' = DictPop(cacheMap, cframe[t].key)
    /\ live' = [live EXCEPT ![cframe[t].key] = << >>]
    /\ cpc' = [cpc EXCEPT ![t] = "get18"]
    /\ UNCHANGED <<clock, tsMap, cframe, nonCacheVars>>

\* get, lines 18-19: purge the timestamp, return None
CacheGet18(t) ==
    /\ cpc[t] = "get18"
    /\ tsMap' = DictPop(tsMap, cframe[t].key)
    /\ cframe' = [cframe EXCEPT ![t].ret = << >>]
    /\ cpc' = [cpc EXCEPT ![t] = "returned"]
    /\ UNCHANGED <<clock, cacheMap, live, nonCacheVars>>

\* get, line 20: return the payload; a key removed meanwhile is a KeyError
CacheGet20(t) ==
    /\ cpc[t] = "get20"
    /\ cframe' = [cframe EXCEPT ![t].ret =
                     IF cframe[t].key \in DOMAIN cacheMap
                     THEN <<cacheMap[cframe[t].key]>>
                     ELSE <<"KeyError">>]
    /\ cpc' = [cpc EXCEPT ![t] = "returned"]
    /\ UNCHANGED <<clock, cacheMap, tsMap, live, nonCacheVars>>

\* the handler goes on with what get returned
CacheGetDone(t) ==
    /\ cpc[t] = "returned"
    /\ cframe' = [cframe EXCEPT ![t] = IdleFrame]
    /\ cpc' = [cpc EXCEPT ![t] = "idle"]
    /\ UNCHANGED <<clock, cacheMap, tsMap, live, nonCacheVars>>

\* set, line 23: the call begins and stores the payload
CacheSet23(t, key, value) ==
    /\ cpc[t] = "idle"
    /\ cframe' = [cframe EXCEPT ![t] =
                     [IdleFrame EXCEPT !.key = key, !.value = value]]
    /\ cacheMap' = DictPut(cacheMap, key, value)
    /\ cpc' = [cpc EXCEPT ![t] = "set24"]
    /\ UNCHANGED <<clock, tsMap, live, nonCacheVars>>

\* set, line 24: store the timestamp
CacheSet24(t) ==
    /\ cpc[t] = "set24"
    /\ tsMap' = DictPut(tsMap, cframe[t].key, clock)
    /\ live' = [live EXCEPT ![cframe[t].key] =
                   <<[time |-> clock, val |-> cframe[t].value]>>]
    /\ cframe' = [cframe EXCEPT ![t] = IdleFrame]
    /\ cpc' = [cpc EXCEPT ![t] = "idle"]
    /\ UNCHANGED <<clock, cacheMap, nonCacheVars>>

\* clear, line 27
CacheClear27(t) ==
    /\ cpc[t] = "idle"
    /\ cacheMap' = << >>
    /\ live' = [k \in CacheKeys |-> << >>]
    /\ cpc' = [cpc EXCEPT ![t] = "clear28"]
    /\ UNCHANGED <<clock, tsMap, cframe, nonCacheVars>>

\* clear, line 28
CacheClear28(t) ==
    /\ cpc[t] = "clear28"
    /\ tsMap' = << >>
    /\ live' = [k \in CacheKeys |-> << >>]
    /\ cpc' = [cpc EXCEPT ![t] = "idle"]
    /\ UNCHANGED <<clock, cacheMap, cframe, nonCacheVars>>

\* one step of thread t inside or into a MemoryCache call
CacheStep(t) ==
    \/ \E key \in CacheKeys : CacheGet14(t, key)
    \/ CacheGet16(t)
    \/ CacheGet17(t)
    \/ CacheGet18(t)
    \/ CacheGet20(t)
    \/ CacheGetDone(t)
    \/ \E key \in CacheKeys, value \in CacheValues : CacheSet23(t, key, value)
    \/ CacheSet24(t)
    \/ CacheClear27(t)
    \/ CacheClear28(t)

\* ------------------------------------------------------------ RateLimiter
\* allow is called only from the  async def  middleware auth_and_rate_limit
\* (main.py lines 98-116), which runs on the event loop's single thread, and
\* allow does not await: a request that has entered allow runs it to the
\* end before the loop runs another request.
LimiterTasks == {"r1", "r2"}

\* the X-Client-ID header of a request: absent, or a client's id
ClientHeaders == {None, <<"c1">>}

\* main.py line 103: request.headers.get("X-Client-ID", "default")
ClientIdOf(header) == IF header = None THEN "default" ELSE header[1]

IdleRequest == [client |-> "default", now |-> 0, ret |-> FALSE, before |-> << >>]

LimiterIdle ==
    /\ requests = << >>
    /\ lpc = [t \in LimiterTasks |-> "idle"]
    /\ lframe = [t \in LimiterTasks |-> IdleRequest]
    /\ llog = [c \in {ClientIdOf(h) : h \in ClientHeaders} |-> << >>]

\* time passes
LimiterTick ==
    /\ clock < MaxTime
    /\ clock' = clock + 1
    /\ UNCHANGED <<limiterVars, nonLimiterVars>>

\* defaultdict(list): the list of a client, empty for a new one
RequestList(map, client) == IF client \in DOMAIN map THEN map[client] ELSE << >>

\* line 16: the timestamps of list that are younger than the window
PrunedNothing(list, now) == list

Pruned(list, now) == SelectSeq(list, LAMBDA t : now - t < rate_window)

\* line 17 negated: whether the pruned list leaves room for the call
AdmitsAtLimit(list) == Len(list) <= rate_limit

Admits(list) == ~(Len(list) >= rate_limit)

\* whether the event loop may run request t's middleware now
LoopFreeThreaded(t) == TRUE

LoopFree(t) ==
    \A u \in LimiterTasks \ {t} : lpc[u] \notin {"allow16", "allow17", "allow19"}

\* how many allow calls of the client are answered or under way
CallsOf(client) ==
    Len(llog[client])
    + Cardinality({t \in LimiterTasks : lpc[t] # "idle" /\ lframe[t].client = client})

\* a request arrives (main.py line 103); the loop has not run it yet
LimiterArrive(t, header) ==
    /\ lpc[t] = "idle"
    /\ CallsOf(ClientIdOf(header)) < MaxCalls
    /\ lframe' = [lframe EXCEPT ![t] = [IdleRequest EXCEPT !.client = ClientIdOf(header)]]
    /\ lpc' = [lpc EXCEPT ![t] = "pending"]
    /\ UNCHANGED <<clock, requests, llog, nonLimiterVars>>

\* allow, line 15: the loop enters allow for this request; now = time.time()
Allow15(t) ==
    /\ lpc[t] = "pending"
    /\ LoopFree(t)
    /\ lframe' = [lframe EXCEPT ![t].now = clock, ![t].before = requests]
    /\ lpc' = [lpc EXCEPT ![t] = "allow16"]
    /\ UNCHANGED <<clock, requests, llog, nonLimiterVars>>

\* allow, line 16: replace the client's list by its pruned copy
Allow16(t) ==
    /\ lpc[t] = "allow16"
    /\ LET c == lframe[t].client
       IN requests' = DictPut(requests, c,
                              Pruned(RequestList(requests, c), lframe[t].now))
    /\ lpc' = [lpc EXCEPT ![t] = "allow17"]
    /\ UNCHANGED <<clock, lframe, llog, nonLimiterVars>>

\* allow, lines 17-18: a full list rejects the call
Allow17(t) ==
    /\ lpc[t] = "allow17"
    /\ LET c == lframe[t].client
       IN IF Admits(RequestList(requests, c))
          THEN /\ lpc' = [lpc EXCEPT ![t] = "allow19"]
               /\ UNCHANGED <<lframe, llog>>
          ELSE /\ lpc' = [lpc EXCEPT ![t] = "answered"]
               /\ lframe' = [lframe EXCEPT ![t].ret = FALSE]
               /\ llog' = [llog EXCEPT ![c] =
                              Append(@, [time |-> lframe[t].now, ret |-> FALSE])]
    /\ UNCHANGED <<clock, requests, nonLimiterVars>>

\* allow, lines 19-20: record the call and accept it
Allow19(t) ==
    /\ lpc[t] = "allow19"
    /\ LET c == lframe[t].client
       IN /\ requests' = DictPut(requests, c,
                                 Append(RequestList(requests, c), lframe[t].now))
          /\ llog' = [llog EXCEPT ![c] =
                         Append(@, [time |-> lframe[t].now, ret |-> TRUE])]
    /\ lframe' = [lframe EXCEPT ![t].ret = TRUE]
    /\ lpc' = [lpc EXCEPT ![t] = "answered"]
    /\ UNCHANGED <<clock, nonLimiterVars>>

\* main.py lines 104-116: the middleware answers 429 or passes the request on
LimiterDone(t) ==
    /\ lpc[t] = "answered"
    /\ lframe' = [lframe EXCEPT ![t] = [IdleRequest EXCEPT !.client = lframe[t].client]]
    /\ lpc' = [lpc EXCEPT ![t] = "idle"]
    /\ UNCHANGED <<clock, requests, llog, nonLimiterVars>>

\* ------------------------------------------------------ pick_best_audio
\* ytdlp_service.py lines 21-30 and 162-168.  A format is a dict; a key that
\* is missing or None is None here, a text is its characters, a number n is
\* <<n>>.
TextNone  == <<"n", "o", "n", "e">>
TextAvc1  == <<"a", "v", "c", "1">>
TextMp4a  == <<"m", "p", "4", "a">>
TextHttps == <<"h", "t", "t", "p", "s">>
TextM3u8Native == <<"m", "3", "u", "8", "_", "n">>
TextHLS   == <<"H", "L", "S">>
TextM4a   == <<"m", "4", "a">>
TextExtM3U8 == <<"M", "3", "U", "8">>
TextUrlFile == <<"/", "a", ".", "m", "4", "a">>
TextUrlManifest == <<"/", "a", ".", "m", "3", "u", "8">>
PatM3u8   == <<"m", "3", "u", "8">>
PatHls    == <<"h", "l", "s">>

\* how a format is delivered: protocol tag, extension and URL
Deliveries ==
    { [protocol |-> TextHttps, ext |-> TextM4a, url |-> TextUrlFile],
      [protocol |-> None, ext |-> None, url |-> None],
      [protocol |-> TextM3u8Native, ext |-> TextM4a, url |-> TextUrlFile],
      [protocol |-> TextHLS, ext |-> TextM4a, url |-> None],
      [protocol |-> None, ext |-> TextExtM3U8, url |-> TextUrlFile],
      [protocol |-> TextHttps, ext |-> TextM4a, url |-> TextUrlManifest] }

Codecs ==
    { [vcodec |-> TextNone, acodec |-> TextMp4a],
      [vcodec |-> TextNone, acodec |-> None],
      [vcodec |-> TextNone, acodec |-> TextNone],
      [vcodec |-> TextAvc1, acodec |-> TextMp4a] }

Bitrates ==
    { [abr |-> None, tbr |-> None], [abr |-> <<1>>, tbr |-> None],
      [abr |-> <<1>>, tbr |-> <<1>>], [abr |-> <<2>>, tbr |-> None] }

Formats ==
    { [vcodec |-> c.vcodec, acodec |-> c.acodec, protocol |-> d.protocol,
       ext |-> d.ext, url |-> d.url, abr |-> b.abr, tbr |-> b.tbr] :
        c \in Codecs, d \in Deliveries, b \in Bitrates }

FormatLists == UNION { [1..n -> Formats] : n \in 0..MaxFormats }

NotCalled == [called |-> FALSE, value |-> None]

PickIdle ==
    /\ formats = << >>
    /\ picked = NotCalled

\* (x or "") and (x or 0)
OrEmpty(x) == IF x = None THEN << >> ELSE x
OrZero(x)  == IF x = None THEN 0 ELSE x[1]

\* lines 21-30
IsHlsFormat(fmt) ==
    LET protocol == Lower(OrEmpty(fmt.protocol))
        ext      == Lower(OrEmpty(fmt.ext))
        url      == Lower(OrEmpty(fmt.url))
    IN  \/ Contains(protocol, PatM3u8)
        \/ ext = PatM3u8
        \/ Contains(url, PatM3u8)
        \/ Contains(protocol, PatHls)

\* line 163: the test of the list comprehension
IsAudioOnly(f) == f.vcodec = TextNone /\ f.acodec # TextNone

\* line 168: the sort key, and the order Python puts on such pairs
AudioKey(f) == <<OrZero(f.abr), OrZero(f.tbr)>>
KeyLess(a, b) == a[1] < b[1] \/ (a[1] = b[1] /\ a[2] < b[2])

\* max(list, key=...): the first element no later element beats
RECURSIVE MaxFrom(_, _, _)
MaxFrom(list, i, best) ==
    IF i > Len(list) THEN best
    ELSE MaxFrom(list, i + 1,
                 IF KeyLess(AudioKey(best), AudioKey(list[i]))
                 THEN list[i] ELSE best)

\* line 167:  non_hls or audio_formats
CandidatesAnyDelivery(non_hls, audio_formats) == audio_formats

Candidates(non_hls, audio_formats) ==
    IF non_hls # << >> THEN non_hls ELSE audio_formats

\* lines 162-168; the returned dict is <<dict>>
PickBestAudio(list) ==
    LET audio_formats == SelectSeq(list, IsAudioOnly)
        NotHls(f)     == ~IsHlsFormat(f)
        non_hls       == SelectSeq(audio_formats, NotHls)
        candidates    == Candidates(non_hls, audio_formats)
    IN  IF audio_formats = << >> THEN None
        ELSE <<MaxFrom(candidates, 2, candidates[1])>>

\* one call of pick_best_audio on the list at hand
Pick ==
    /\ picked = NotCalled
    /\ picked' = [called |-> TRUE, value |-> PickBestAudio(formats)]
    /\ UNCHANGED <<programVars, formats, classifyVars, keyVars>>

\* ------------------------------------------------- the two except clauses
\* download_service.py lines 120-134 and ytdlp_service.py lines 79-89 on the
\* same exception text.  The texts are put together from these parts.
TextPrefixes == { << >>, <<"E","R","R","O","R",":"," ">> }
TextCores    == { << >>, <<"H","T","T","P"," ","E","r","r","o","r"," ">>,
                  <<"h","t","t","p"," ","e","r","r","o","r"," ">> }
TextCodes    == { <<"4","2","9">>, <<"4","0","3">>, <<"5","0","0">> }
TextSuffixes == { << >>,
                  <<":"," ","T","o","o"," ","M","a","n","y"," ","R","e","q","u","e","s","t","s">>,
                  <<" ","C","l","i","e","n","t"," ","E","r","r","o","r",":"," ","T","o","o"," ","M","a","n","y"," ","R","e","q","u","e","s","t","s">>,
                  <<":"," ","F","o","r","b","i","d","d","e","n">> }

ErrorTexts ==
    { a \o b \o c \o d : a \in TextPrefixes, b \in TextCores,
                           c \in TextCodes, d \in TextSuffixes }

Unclassified == [called |-> FALSE, download |-> FALSE, extract |-> FALSE]

ClassifyIdle ==
    /\ errText = << >>
    /\ classified = Unclassified

\* the first failure of a run: _run has just made attempts 1, run_extract
\* is at attempt 0, and both have retries left
Classify ==
    /\ ~classified.called
    /\ classified' = [called |-> TRUE,
                      download |-> ShouldRetry(errText, 1),
                      extract |-> ExtractRetries(errText, 0)]
    /\ UNCHANGED <<programVars, pickVars, errText, keyVars>>

\* ---------------------------------------------- cache_key and its callers
\* ytdlp_service.py lines 13-18, main.py lines 155-174 and 201-216.  A URL is
\* UrlBase followed by a path, a cookie payload is a text or None; both are
\* texts over KeyChars.
KeyChars  == {"x", "y"}
KeyTexts  == UNION { [1..n -> KeyChars] : n \in 0..MaxText }
UrlBase   == <<"h", ":", "/", "/", "a", "/">>
Urls      == { UrlBase \o t : t \in KeyTexts }
CookieTexts == KeyTexts
Handlers  == {"info", "formats"}
KeyRequests == [url : Urls, cookies : CookieTexts, handler : Handlers]
RequestIds == {1, 2}

\* hashlib.md5 taken as injective: the digest stands for the bytes that were
\* fed to it
Md5(bytes) == [md5 |-> bytes]

\* lines 14-16: the URL goes in first, then the cookie text when it is
\* neither None nor empty
HashedBytes(url, cookie_text) ==
    IF cookie_text # None THEN url \o cookie_text ELSE url

\* lines 13-18; base and suffix are kept apart because a hex digest holds no
\* colon
cache_key(url, cookie_text, suffix) ==
    [base |-> Md5(HashedBytes(url, cookie_text)), suffix |-> suffix]

\* main.py lines 157 and 203
SuffixOf(handler) == IF handler = "formats" THEN "formats" ELSE ""

\* what run_extract yields for a request, reduced to what it was made from
ResultFor(req) == req

KeyIdle ==
    /\ kreq = << >>
    /\ kstore = << >>
    /\ kresp = << >>

\* main.py lines 155-174 and 201-216, with the cached entry still within
\* its time to live: answer from the cache on a hit, else extract, cache
\* and answer
Handle(i) ==
    /\ kresp[i] = None
    /\ LET req == kreq[i]
           key == cache_key(req.url, req.cookies, SuffixOf(req.handler))
       IN IF key \in DOMAIN kstore
          THEN /\ kresp' = [kresp EXCEPT ![i] = <<kstore[key]>>]
               /\ kstore' = kstore
          ELSE /\ kstore' = [k \in DOMAIN kstore \cup {key} |->
                               IF k = key THEN ResultFor(req) ELSE kstore[k]]
               /\ kresp' = [kresp EXCEPT ![i] = <<ResultFor(req)>>]
    /\ UNCHANGED <<programVars, pickVars, classifyVars, kreq>>

KeyNext == \E i \in RequestIds : Handle(i)

\* ------------------------------------------------------------ specification
Init ==
    /\ JobInit /\ ExtractIdle /\ CacheIdle /\ LimiterIdle
    /\ PickIdle /\ ClassifyIdle /\ KeyIdle

\* pick_best_audio over every list of at most MaxFormats formats
InitPick ==
    /\ JobInit /\ ExtractIdle /\ CacheIdle /\ LimiterIdle
    /\ formats \in FormatLists
    /\ picked = NotCalled
    /\ ClassifyIdle /\ KeyIdle

SpecPick == InitPick /\ [][Pick]_vars

\* both except clauses on every text of ErrorTexts
InitClassify ==
    /\ JobInit /\ ExtractIdle /\ CacheIdle /\ LimiterIdle /\ PickIdle
    /\ errText \in ErrorTexts
    /\ classified = Unclassified
    /\ KeyIdle

SpecClassify == InitClassify /\ [][Classify]_vars

\* two requests to the info and formats handlers, every pair of them
InitKey ==
    /\ JobInit /\ ExtractIdle /\ CacheIdle /\ LimiterIdle
    /\ PickIdle /\ ClassifyIdle
    /\ kreq \in [RequestIds -> KeyRequests]
    /\ kstore = << >>
    /\ kresp = [i \in RequestIds |-> None]

SpecKey == InitKey /\ [][KeyNext]_vars

Next ==
    \/ \E c \in BOOLEAN : Start(c)
    \/ \E j \in JobIds : ReadStartResult(j)
    \/ \E id \in KnownIds \cup {UnknownId} : Cancel(id)
    \/ \E j \in JobIds, ok \in BOOLEAN : StageCookies(j, ok)
    \/ \E j \in JobIds, ok \in BOOLEAN : MakeDirs(j, ok)
    \/ \E j \in JobIds : CallDownload(j)
    \/ \E j \in JobIds, d \in HookDicts : Hook(j, d)
    \/ \E j \in JobIds : DownloadReturns(j)
    \/ \E j \in JobIds, msg \in CollaboratorErrors : DownloadRaises(j, msg)
    \/ \E j \in JobIds : CompleteStatus(j)
    \/ \E j \in JobIds : CompleteProgress(j)
    \/ \E j \in JobIds : HandleError(j)
    \/ \E j \in JobIds : Backoff(j)

Spec == Init /\ [][Next]_vars

\* the steps of a job's _run thread; the collaborator's part is that a
\* download call it was given returns or raises
RunStep(j) ==
    \/ \E ok \in BOOLEAN : StageCookies(j, ok)
    \/ \E ok \in BOOLEAN : MakeDirs(j, ok)
    \/ CallDownload(j)
    \/ DownloadReturns(j)
    \/ \E msg \in CollaboratorErrors : DownloadRaises(j, msg)
    \/ CompleteStatus(j)
    \/ CompleteProgress(j)
    \/ HandleError(j)
    \/ Backoff(j)

\* the thread start launched is scheduled as long as it has a step to take
SpecFair == Spec /\ \A j \in JobIds : WF_vars(RunStep(j))

ExtractNext ==
    \/ \E c \in BOOLEAN, ok \in BOOLEAN : ExtractBegin(c, ok)
    \/ ExtractCall
    \/ ExtractReturns
    \/ \E msg \in CollaboratorErrors : ExtractRaises(msg)
    \/ ExtractHandle
    \/ ExtractBackoff

SpecExtract == Init /\ [][ExtractNext]_vars

\* request threads run MemoryCache calls concurrently
CacheNext ==
    \/ \E t \in CacheThreads : CacheStep(t)
    \/ Tick

SpecCache == Init /\ [][CacheNext]_vars

\* one MemoryCache call at a time
CacheSeqNext ==
    \/ \E t \in CacheThreads :
          /\ \A u \in CacheThreads \ {t} : cpc[u] = "idle"
          /\ CacheStep(t)
    \/ Tick

SpecCacheSeq == Init /\ [][CacheSeqNext]_vars

\* a client that starts a job and polls its status, without cancelling
PollNext ==
    \/ \E c \in BOOLEAN : Start(c)
    \/ \E j \in JobIds : ReadStartResult(j)
    \/ \E j \in JobIds, ok \in BOOLEAN : StageCookies(j, ok)
    \/ \E j \in JobIds, ok \in BOOLEAN : MakeDirs(j, ok)
    \/ \E j \in JobIds : CallDownload(j)
    \/ \E j \in JobIds, d \in HookDicts : Hook(j, d)
    \/ \E j \in JobIds : DownloadReturns(j)
    \/ \E j \in JobIds, msg \in CollaboratorErrors : DownloadRaises(j, msg)
    \/ \E j \in JobIds : CompleteStatus(j)
    \/ \E j \in JobIds : CompleteProgress(j)
    \/ \E j \in JobIds : HandleError(j)
    \/ \E j \in JobIds : Backoff(j)
    \/ \E id \in KnownIds : PollGet(id)
    \/ PollRead
    \/ PollSend

SpecPoll == Init /\ [][PollNext]_vars

LimiterNext ==
    \/ \E t \in LimiterTasks, h \in ClientHeaders : LimiterArrive(t, h)
    \/ \E t \in LimiterTasks : Allow15(t)
    \/ \E t \in LimiterTasks : Allow16(t)
    \/ \E t \in LimiterTasks : Allow17(t)
    \/ \E t \in LimiterTasks : Allow19(t)
    \/ \E t \in LimiterTasks : LimiterDone(t)
    \/ LimiterTick

SpecLimiter == Init /\ [][LimiterNext]_vars

\* ------------------------------------------------------------- properties
Terminal == {"completed", "failed", "cancelled"}

Last(seq) == seq[Len(seq)]

\* the status edges of the job state machine, with the two late landings
StateMachineEdges ==
    { <<"queued", "downloading">>, <<"downloading", "processing">>,
      <<"processing", "completed">>, <<"downloading", "retrying">>,
      <<"retrying", "downloading">>, <<"downloading", "failed">>,
      <<"retrying", "failed">>, <<"queued", "cancelling">>,
      <<"downloading", "cancelling">>, <<"processing", "cancelling">>,
      <<"cancelling", "cancelled">>, <<"cancelling", "completed">>,
      <<"cancelling", "failed">> }

\* C1: every change of a job's status, under any interleaving of _run, its
\* progress hook and cancel, follows one of the edges of the job state
\* machine (including the late landings cancelling->completed|failed).
C1_OnlyStateMachineEdges ==
    [][\A j \in DOMAIN jobs :
          jobs'[j].status # jobs[j].status
              => <<jobs[j].status, jobs'[j].status>> \in StateMachineEdges]_vars

\* C2: when a progress callback has aborted the transfer of a cancelled job,
\* the job ends in status cancelled.
C2_AbortEndsCancelled ==
    \A j \in DOMAIN jobs :
        (pc[j] = "done" /\ outcomes[j] # << >> /\ Last(outcomes[j]) = MsgCancelled)
            => jobs[j].status = "cancelled"

\* C3: a job in a terminal status (completed, failed, cancelled) is never
\* changed again by a call that takes the lock; in particular cancel on it
\* leaves every field as it was.
C3_TerminalIsFinal ==
    [][\A j \in DOMAIN jobs :
          (jobs[j].status \in Terminal /\ lock = "free")
              => jobs'[j] = jobs[j]]_vars

\* C4: a job that is never cancelled and whose download raises a rate-limit
\* error on attempts 1 and 2 gets a third attempt, and when that attempt
\* succeeds the job ends completed with progress 100.0, having been retrying.
C4_RetryTwiceThenComplete ==
    \A j \in DOMAIN jobs :
        (pc[j] = "done" /\ ~jobs[j].cancel /\ Len(outcomes[j]) >= 2
           /\ Contains(outcomes[j][1], PatHttp429)
           /\ Contains(outcomes[j][2], PatHttp429))
        => /\ Len(outcomes[j]) >= 3
           /\ outcomes[j][3] = Ok =>
                 /\ jobs[j].status = "completed"
                 /\ jobs[j].progress = Hundred
                 /\ wasRetrying[j]

C4_Witness ==
    \E j \in DOMAIN jobs :
        /\ pc[j] = "done"
        /\ ~jobs[j].cancel
        /\ outcomes[j] = <<Msg429, Msg429, Ok>>
        /\ jobs[j].status = "completed"

\* C5: _run invokes the external download operation at most 3 times for one
\* job.
C5_AtMostThreeDownloadCalls ==
    \A j \in JobIds : calls[j] <= 3

\* C6: once cancel has returned true the job's status is never queued again,
\* and a job cancelled before its download call began shows cancelling.
C6_CancelNeverRevertsToQueued ==
    \A j \in DOMAIN jobs :
        cancelRet[j] = "True" =>
            /\ jobs[j].status # "queued"
            /\ calls[j] = 0 => jobs[j].status = "cancelling"

C6_Witness ==
    \E j \in DOMAIN jobs :
        /\ cancelRet[j] = "True"
        /\ calls[j] = 0
        /\ pc[j] = "stage"
        /\ jobs[j].status = "cancelling"

\* C7: whenever the caller of start reads the job it was handed, it sees
\* status queued and progress 0.0.
C7_StartReturnsInitialSnapshot ==
    \A j \in JobIds :
        startRet[j] # << >> =>
            /\ startRet[j][1].status = "queued"
            /\ startRet[j][1].progress = Zero

\* C8: when a job's execution path has ended because of an error, the error
\* is recorded on the job and the status is not queued, downloading,
\* processing or retrying.
C8_EndingErrorIsRecorded ==
    \A j \in DOMAIN jobs :
        (\/ pc[j] = "crashed"
         \/ pc[j] = "done" /\ outcomes[j] # << >> /\ Last(outcomes[j]) # Ok)
        => /\ jobs[j].error # None
           /\ jobs[j].status \notin {"queued", "downloading", "processing", "retrying"}

\* C9: a job's progress stays within 0.0..100.0, and while the job is in a
\* non-terminal status its progress never decreases from one state to the
\* next.
C9_ProgressBoundedAndMonotone ==
    [][\A j \in DOMAIN jobs :
          /\ FracLeq(Zero, jobs'[j].progress)
          /\ FracLeq(jobs'[j].progress, Hundred)
          /\ jobs[j].status \notin Terminal
                => FracLeq(jobs[j].progress, jobs'[j].progress)]_vars

\* C10: run_extract calls the extractor at most 3 times; a further attempt
\* follows only a rate-limit error; any other error, and a rate-limit error
\* on attempt 3, ends the call with that error and no further attempt.
C10_ExtractRetryPolicy ==
    /\ Len(xlog) <= 3
    /\ \A k \in 1..(Len(xlog) - 1) : xlog[k] # Ok /\ IsRateLimited(xlog[k])
    /\ (xlog # << >> /\ Last(xlog) # Ok
          /\ (~IsRateLimited(Last(xlog)) \/ Len(xlog) = 3))
       => /\ xpc \in {"caught", "done"}
          /\ xpc = "done" => xresult = [kind |-> "raise", detail |-> Last(xlog)]

C10_Witness ==
    /\ xpc = "done"
    /\ xlog = <<Msg429, MsgTooMany, Msg429>>
    /\ xresult = [kind |-> "raise", detail |-> Msg429]

C12_GetWithinTtlElsePurge ==
    \A t \in CacheThreads :
        (cpc[t] = "returned" /\ cframe[t].seenLive # << >>) =>
            LET g == cframe[t]
                age == g.now - g.seenLive[1].time
            IN /\ age <= ttl_seconds => g.ret = <<g.seenLive[1].val>>
               /\ age > ttl_seconds =>
                     /\ g.ret = << >>
                     /\ g.key \notin DOMAIN cacheMap
                     /\ g.key \notin DOMAIN tsMap
                     /\ CacheSize = g.sizeBefore - 1

C12_Witness ==
    \E t \in CacheThreads :
        /\ cpc[t] = "returned"
        /\ cframe[t].seenLive # << >>
        /\ cframe[t].now - cframe[t].seenLive[1].time > ttl_seconds
        /\ cframe[t].ret = << >>
        /\ cframe[t].sizeBefore = 2
        /\ CacheSize = 1

\* C13: under any interleaving of set, get and clear calls, line 16 of get
\* never finds k's payload without k's timestamp, and once every call has
\* finished the payload map and the timestamp map have the same keys.
C13_MapsUpdatedTogether ==
    /\ []((\A t \in CacheThreads : cpc[t] = "idle")
             => DOMAIN cacheMap = DOMAIN tsMap)
    /\ [][\A t \in CacheThreads :
             (cpc[t] = "get16" /\ cpc'[t] # "get16"
                /\ cframe[t].key \in DOMAIN cacheMap)
             => cframe[t].key \in DOMAIN tsMap]_vars

\* the accepted calls of a client's log that lie before call i and inside
\* the window that ends at call i
AcceptedInWindow(log, i) ==
    {j \in 1..(i - 1) : log[j].ret /\ log[i].time - log[j].time < rate_window}

\* C14: for every client, a call is accepted when fewer than limit accepted
\* calls lie inside the window before it and rejected when limit of them do:
\* the first limit calls of a window return true, the next one false, and a
\* call made once window_seconds have passed returns true again.
C14_SlidingWindowAdmission ==
    \A c \in DOMAIN llog :
        \A i \in 1..Len(llog[c]) :
            llog[c][i].ret = (Cardinality(AcceptedInWindow(llog[c], i)) < rate_limit)

C14_Witness ==
    \E c \in DOMAIN llog :
        /\ Len(llog[c]) = 4
        /\ llog[c][1] = [time |-> 0, ret |-> TRUE]
        /\ llog[c][2] = [time |-> 0, ret |-> TRUE]
        /\ llog[c][3] = [time |-> 1, ret |-> FALSE]
        /\ llog[c][4] = [time |-> 2, ret |-> TRUE]

\* the timestamps of a list that are inside the window ending now
Fresh(list) == SelectSeq(list, LAMBDA t : clock - t < rate_window)

\* the timestamps of the accepted calls of a log
AcceptedTimes(log) ==
    LET acc == SelectSeq(log, LAMBDA e : e.ret)
    IN [i \in 1..Len(acc) |-> acc[i].time]

\* C15: allow calls for one client do not interleave: never more than limit
\* accepted calls lie inside one window, and every accepted call that is
\* still inside the window is in the client's stored list.
C15_AllowIsAtomicPerClient ==
    \A c \in DOMAIN llog :
        /\ Len(Fresh(AcceptedTimes(llog[c]))) <= rate_limit
        /\ Fresh(AcceptedTimes(llog[c])) = Fresh(RequestList(requests, c))

C15_Witness ==
    \E t, u \in LimiterTasks :
        /\ t # u
        /\ lpc[t] = "allow17"
        /\ lpc[u] = "pending"
        /\ lframe[t].client = lframe[u].client
        /\ Len(RequestList(requests, lframe[t].client)) = rate_limit - 1

\* C16: a rejected allow(c) leaves c with exactly the unexpired timestamps it
\* had before, and no allow(c) changes the timestamps of another client.
C16_RejectionRecordsNothing ==
    [][\A t \in LimiterTasks :
          (lpc[t] # "answered" /\ lpc'[t] = "answered") =>
              LET c == lframe'[t].client
                  before == lframe'[t].before
              IN /\ ~lframe'[t].ret =>
                       RequestList(requests', c)
                          = SelectSeq(RequestList(before, c),
                                      LAMBDA x : lframe'[t].now - x < rate_window)
                 /\ \A d \in DOMAIN llog \ {c} :
                       /\ (d \in DOMAIN requests') = (d \in DOMAIN before)
                       /\ RequestList(requests', d) = RequestList(before, d)]_vars

C16_Witness ==
    \E t \in LimiterTasks :
        /\ lpc[t] = "answered"
        /\ ~lframe[t].ret
        /\ RequestList(lframe[t].before, lframe[t].client) = <<0, 1>>
        /\ RequestList(requests, lframe[t].client) = <<0, 1>>
        /\ \E d \in DOMAIN requests \ {lframe[t].client} : requests[d] # << >>

C18_PickBestAudio ==
    picked.called =>
        LET audio  == { i \in 1..Len(formats) : IsAudioOnly(formats[i]) }
            direct == { i \in audio : ~IsHlsFormat(formats[i]) }
            pool   == IF direct # {} THEN direct ELSE audio
        IN  IF audio = {} THEN picked.value = None
            ELSE /\ picked.value # None
                 /\ \E i \in pool : formats[i] = picked.value[1]
                 /\ \A i \in pool :
                       ~KeyLess(AudioKey(picked.value[1]),
                                AudioKey(formats[i]))

\* a format with no protocol, extension or URL is picked although a format
\* with extension "M3U8" has the higher bitrate
C18_Witness ==
    /\ picked.called
    /\ picked.value # None
    /\ ~IsHlsFormat(picked.value[1])
    /\ picked.value[1].protocol = None
    /\ \E i \in 1..Len(formats) :
          /\ IsAudioOnly(formats[i])
          /\ IsHlsFormat(formats[i])
          /\ formats[i].ext = TextExtM3U8
          /\ KeyLess(AudioKey(picked.value[1]), AudioKey(formats[i]))

\* C19: on every error text, _run decides to retry a first failure exactly
\* when run_extract does.
C19_SameTransientErrors ==
    classified.called => (classified.download <=> classified.extract)

\* C20: a request that got the job from get(job_id) and reads status
\* completed from it also reads progress 100.0.
C20_CompletedPolledWithFullProgress ==
    polled # None =>
        (polled[1].status = "completed" => polled[1].progress = Hundred)

\* C21: once cancel(job_id) has returned True, every later progress
\* callback of the job raises "Download cancelled" and leaves the job's
\* fields as they were, the job's status is never downloading or processing
\* again, and no download call follows a call the abort has ended.
C21_CancelledHookAborts ==
    /\ [](\A j \in DOMAIN jobs :
            /\ cancelRet[j] = "True"
                 => jobs[j].status \notin {"downloading", "processing"}
            /\ \A k \in 1..Len(outcomes[j]) :
                  outcomes[j][k] = MsgCancelled => calls[j] = k)
    /\ [][\A j \in DOMAIN jobs :
            (cancelRet[j] = "True" /\ hooks'[j] = hooks[j] + 1)
               => /\ jobs'[j] = jobs[j]
                  /\ pc'[j] = "raised"
                  /\ exc'[j] = MsgCancelled]_vars

\* a callback after the cancel has aborted the download, and the run has
\* ended on it
C21_Witness ==
    /\ 1 \in DOMAIN jobs
    /\ cancelRet[1] = "True"
    /\ outcomes[1] # << >>
    /\ Last(outcomes[1]) = MsgCancelled
    /\ pc[1] = "done"
    /\ jobs[1].error = MsgCancelled

\* C22: when cookie material was supplied, the staged credential file exists
\* whenever the collaborator is running an attempt, the first one and the
\* ones made after a rate-limit error, in run_extract and in _run alike.
C22_CookieFilePresentAtEveryAttempt ==
    /\ (xpc = "extracting" /\ xcookies) => xcookieFile = "present"
    /\ \A j \in DOMAIN jobs :
          (pc[j] = "downloading" /\ cookies[j]) => cookieFile[j] = "present"

\* C23: under fair scheduling, with every download call returning or
\* raising, every job start has registered eventually reaches one of the
\* statuses completed, failed, cancelled.
C23_EveryJobEnds ==
    \A j \in JobIds :
        /\ (<>(j \in DOMAIN jobs))
              => <>(j \in DOMAIN jobs /\ jobs[j].status \in Terminal)
        /\ ~<>[](/\ j \in DOMAIN jobs
                  /\ jobs[j].status \in {"queued", "downloading",
                                         "processing", "retrying"})

\* C24: with the hash injective on its input bytes, requests to the same
\* handler that differ in URL or in cookie material get distinct keys, so
\* the info and formats handlers answer every request with a result made
\* for its own URL and cookie material.
C24_NoCrossRequestCacheHit ==
    /\ \A i, k \in DOMAIN kreq :
          (/\ kreq[i].handler = kreq[k].handler
           /\ <<kreq[i].url, kreq[i].cookies>> # <<kreq[k].url, kreq[k].cookies>>)
          => cache_key(kreq[i].url, kreq[i].cookies, SuffixOf(kreq[i].handler))
               # cache_key(kreq[k].url, kreq[k].cookies, SuffixOf(kreq[k].handler))
    /\ \A i \in DOMAIN kresp :
          kresp[i] # None =>
              /\ kresp[i][1].url = kreq[i].url
              /\ kresp[i][1].cookies = kreq[i].cookies

====
